---- MODULE Spec2Model ----
(***************************************************************************)
(* Model of the meta-app-builder service: the /submit and /revise handlers *)
(* (app.py), the deployment sequence _deploy_once, the attachment decoder  *)
(* (attachments.py), the content generator (llm_generator.py) and the      *)
(* repository reconciler (github_pages.py), run against a repository host  *)
(* that keeps one repository per task, one blob per path, a head commit    *)
(* and a pages configuration.                                              *)
(***************************************************************************)
EXTENDS Naturals, Sequences, FiniteSets, TLC

\* ---------------------------------------------------------------- bounds
NumReqs == 2        \* request handlers that may run (and overlap)
MaxAtts == 1        \* attachments per request
MaxMergeAtts == 2   \* attachments per request where the merge is examined
MaxTaskLen == 2     \* characters of a task where the naming is examined

Reqs == 1..NumReqs

\* ------------------------------------------------------- configuration
STUDENT_EMAIL == "student@example.com"
STUDENT_SECRET == "change-me"
GH_USERNAME == "octo"
GH_REPO_PREFIX == <<"t", "d", "s", "-">>

Emails == {STUDENT_EMAIL, "intruder@example.com"}
Secrets == {STUDENT_SECRET, "guess"}
\* Task identifiers are strings, modelled as sequences of characters.
Tasks == {<<"a", "/", "b">>}
Rounds == {1, 2}
NonceOf(round) == IF round = 1 THEN "n1" ELSE "n2"
Brief == "sum the sales"
Checks == <<"#total exists">>
EvalUrl == "http://eval.test/cb"

\* ------------------------------------------------------------ values
None == [kind |-> "none"]

\* Python truthiness of the values the code tests with `if x:` / `x or y`.
Truthy(x) == x # None

\* An ordered mapping (a Python dict): a sequence of [path, content] entries
\* with pairwise different paths, in insertion order.
Keys(d) == {d[i].path : i \in 1..Len(d)}
KeyList(d) == [i \in 1..Len(d) |-> d[i].path]
Get(d, k) == (CHOOSE i \in 1..Len(d) : d[i].path = k)
Lookup(d, k) == d[Get(d, k)].content
\* A d[k] = v that keeps the value of an existing key
SetItem_keep_first(d, k, v) ==
    IF k \in Keys(d) THEN d ELSE Append(d, [path |-> k, content |-> v])
\* d[k] = v: an existing key keeps its position, a new key is appended.
SetItem(d, k, v) ==
    IF k \in Keys(d)
    THEN [d EXCEPT ![Get(d, k)] = [path |-> k, content |-> v]]
    ELSE Append(d, [path |-> k, content |-> v])

\* ----------------------------------------------------- attachments.py
\* A url is modelled by what the decoder reads of it: whether it starts with
\* "data:", whether the part up to the payload has the shape
\* <mime>;base64, and the payload as a string over the base64 alphabet
\* ("A" stands for any data character, "=" is the pad character).
DataUrl(b64) == [data |-> TRUE, head_ok |-> TRUE, b64 |-> b64]

\* DATA_URI_RE.match(url): the head has the data-URI shape and the payload is
\* one or more characters of the base64 alphabet or "=".
DATA_URI_RE(url) == url.data /\ url.head_ok /\ Len(url.b64) >= 1

\* base64.b64decode (binascii.a2b_base64, non-strict): the number of bytes
\* decoded, or Invalid when binascii.Error is raised.
Invalid == [kind |-> "error"]
Bytes(n) == [kind |-> "raw", n |-> n]

RECURSIVE a2b_base64(_, _, _, _, _)
a2b_base64(s, i, quad_pos, pads, n) ==
    IF i > Len(s)
    THEN IF quad_pos = 0 THEN Bytes(n) ELSE Invalid
    ELSE IF s[i] = "="
         THEN IF quad_pos >= 2 /\ quad_pos + pads + 1 >= 4
              THEN Bytes(n)
              ELSE a2b_base64(s, i + 1, quad_pos,
                              IF quad_pos >= 2 THEN pads + 1 ELSE pads, n)
         ELSE IF quad_pos = 0
              THEN a2b_base64(s, i + 1, 1, 0, n)
              ELSE a2b_base64(s, i + 1, (quad_pos + 1) % 4, 0, n + 1)

b64decode(s) == a2b_base64(s, 1, 0, 0, 0)

\* What one loop iteration of decode_and_collect_attachments does with a:
\* "skip" (continue / ignored), "raise" (b64decode raises), or "store".
AttStep(a) ==
    IF a.name = "" THEN "skip"
    ELSE IF ~a.url.data THEN "skip"
    ELSE IF ~DATA_URI_RE(a.url) THEN "skip"
    ELSE IF b64decode(a.url.b64) = Invalid THEN "raise"
    ELSE "store"

RECURSIVE CollectFrom(_, _, _)
CollectFrom(atts, i, out) ==
    IF i > Len(atts) THEN out
    ELSE IF AttStep(atts[i]) = "store"
         THEN CollectFrom(atts, i + 1,
                          SetItem(out, atts[i].name, b64decode(atts[i].url.b64)))
         ELSE CollectFrom(atts, i + 1, out)

\* decode_and_collect_attachments(atts) raises: the binascii.Error of
\* b64decode is not caught and escapes the loop.
decode_raises(atts) == \E i \in 1..Len(atts) : AttStep(atts[i]) = "raise"
\* decode_and_collect_attachments(atts): the mapping it returns otherwise.
decode_and_collect_attachments(atts) == CollectFrom(atts, 1, <<>>)

\* --------------------------------------------------- llm_generator.py
Text(kind, what, n) == [kind |-> kind, what |-> what, n |-> n]

\* The backend's answer to the call made by request r (.content.strip()).
ModelAnswer(what, r) == Text("llm", what, r)

_fallback_index_html == Text("fallback", "index.html", 0)
_fallback_script_js == Text("fallback", "script.js", 0)
\* A stylesheet taken from the backend
_style_css_generated == Text("llm", "style.css", 0)
_style_css == Text("template", "style.css", 0)
readme == Text("template", "README.md", 0)
license_txt == Text("template", "LICENSE", 0)

\* use_fallback after the markup call, given whether it raised.
HtmlFallback(raised) == raised
\* A failed script call that leaves use_fallback unset
JsFallback_unset(raised) == FALSE
\* use_fallback after the script call, given whether it raised.
JsFallback(raised) == raised

\* The tail of generate_app_files: the fallback substitution and the
\* returned mapping.
generate_return(use_fallback, html, js) ==
    << [path |-> "index.html",
        content |-> IF use_fallback THEN _fallback_index_html ELSE html],
       [path |-> "style.css", content |-> _style_css],
       [path |-> "script.js",
        content |-> IF use_fallback THEN _fallback_script_js ELSE js],
       [path |-> "README.md", content |-> readme],
       [path |-> "LICENSE", content |-> license_txt] >>

\* ------------------------------------------------------------- app.py
\* str.encode("utf-8")
encode(text) == [kind |-> "utf8", text |-> text]

Replace(s, a, b) == [i \in 1..Len(s) |-> IF s[i] = a THEN b ELSE s[i]]
\* A name in which only "/" is replaced
_repo_name_slash_only(task) == Replace(GH_REPO_PREFIX \o task, "/", "-")
_repo_name(task) == Replace(Replace(GH_REPO_PREFIX \o task, "/", "-"), " ", "-")

\* _auth comparing the email only
_auth_email_only(p) == p.email = STUDENT_EMAIL
_auth(p) == ~(p.email # STUDENT_EMAIL \/ p.secret # STUDENT_SECRET)

RECURSIVE MergeFrom(_, _, _)
MergeFrom(src, i, out) ==
    IF i > Len(src) THEN out
    ELSE MergeFrom(src, i + 1, SetItem(out, src[i].path, src[i].content))

EncodeAll(d) == [i \in 1..Len(d) |-> [path |-> d[i].path, content |-> encode(d[i].content)]]

\* Step 4 of _deploy_once: the generated texts, then the attachments.
files_to_commit_of(app_files_text, attachment_files) ==
    MergeFrom(attachment_files, 1, MergeFrom(EncodeAll(app_files_text), 1, <<>>))

\* _notify: what the call returns for each outcome of the POST; it has no
\* raising outcome.
NotifyOutcomes == {"json", "not_json", "non_2xx", "timeout", "network"}
Raised == [kind |-> "raised"]
\* _notify without the outer except: the failures of the POST propagate
_notify_propagating(outcome) ==
    CASE outcome = "json" -> [kind |-> "json"]
      [] outcome = "not_json" -> [kind |-> "status_text"]
      [] OTHER -> Raised
_notify(outcome) ==
    CASE outcome = "json" -> [kind |-> "json"]
      [] outcome = "not_json" -> [kind |-> "status_text"]
      [] OTHER -> [kind |-> "error"]

\* --------------------------------------------------------- the inputs
AttNames == {"data.csv", "index.html"}
Attachments ==
    { [name |-> "data.csv", url |-> DataUrl(<<"A", "A", "A", "A">>)],
      [name |-> "data.csv", url |-> DataUrl(<<"A", "A", "A">>)],
      [name |-> "index.html", url |-> DataUrl(<<"A", "A", "=", "=">>)] }

SeqsUpTo(S, n) == UNION {[1..k -> S] : k \in 0..n}
AttLists == SeqsUpTo(Attachments, MaxAtts)

Payloads ==
    { [email |-> e, secret |-> s, task |-> t, round |-> k, nonce |-> NonceOf(k),
       brief |-> Brief, checks |-> Checks, evaluation_url |-> EvalUrl,
       attachments |-> a] :
      e \in Emails, s \in Secrets, t \in Tasks, k \in Rounds, a \in AttLists }

Paths == {"index.html", "style.css", "script.js", "README.md", "LICENSE"}
             \cup AttNames
RepoNames == {_repo_name(t) : t \in Tasks}

\* Every call to the host can also end in a non-2xx answer ("500") or in a
\* transport error (no answer: httpx raises).
Faults == {"500", "transport"}

\* ------------------------------------------------------------- state
VARIABLES
    repos,            \* host: names of the repositories that exist
    files,            \* host: files[name][path], the blob at a path or None
    head,             \* host: head[name], the commit heads/main points to
    pages,            \* host: names of the repositories with a pages configuration
    client,           \* llm_generator._client is set (backend configured)
    faults,           \* the failures the network and the host can answer with
    pc,               \* pc[r]: where handler r stands
    payload,          \* payload[r]: the request body of handler r
    resp,             \* resp[r]: the response of handler r, None until sent
    repo_html_url,    \* _deploy_once: repo_html_url
    repo_api,         \* _deploy_once: _repo_api
    attachment_files, \* _deploy_once: attachment_files
    html,             \* generate_app_files: html after the markup call
    app_files_text,   \* _deploy_once: app_files_text
    files_to_commit,  \* _deploy_once: files_to_commit
    idx,              \* commit_files: position of the loop in files.items()
    sha,              \* commit_files: sha of the current path
    commit_sha,       \* _deploy_once: commit_sha
    pages_url,        \* _deploy_once: pages_url
    obs               \* obs[r]: record of the calls handler r has made

hostvars == <<repos, files, head, pages>>
locals == <<repo_html_url, repo_api, attachment_files, html, app_files_text,
            files_to_commit, idx, sha, commit_sha, pages_url>>
vars == <<repos, files, head, pages, client, faults, pc, payload, resp, repo_html_url, repo_api,
          attachment_files, html, app_files_text, files_to_commit, idx, sha,
          commit_sha, pages_url, obs>>

NoObs == [host |-> 0, gen |-> 0, genfail |-> FALSE, notify |-> 0, outcome |-> "-",
          lookup |-> "-", create |-> "-",
          put |-> [status |-> "-", had |-> None, sent |-> None],
          pages_sent |-> {}, errored |-> FALSE, rejected |-> FALSE]

\* The state after start-up, on a network whose failures are f and for
\* requests whose tasks are in T.
Start(f, T) ==
    /\ repos = {}
    /\ files = [n \in {_repo_name(t) : t \in T} |-> [p \in Paths |-> None]]
    /\ head = [n \in {_repo_name(t) : t \in T} |-> None]
    /\ pages = {}
    /\ client \in BOOLEAN
    /\ faults = f
    /\ pc = [r \in Reqs |-> "idle"]
    /\ payload = [r \in Reqs |-> None]
    /\ resp = [r \in Reqs |-> None]
    /\ repo_html_url = [r \in Reqs |-> None]
    /\ repo_api = [r \in Reqs |-> None]
    /\ attachment_files = [r \in Reqs |-> <<>>]
    /\ html = [r \in Reqs |-> None]
    /\ app_files_text = [r \in Reqs |-> <<>>]
    /\ files_to_commit = [r \in Reqs |-> <<>>]
    /\ idx = [r \in Reqs |-> 0]
    /\ sha = [r \in Reqs |-> None]
    /\ commit_sha = [r \in Reqs |-> None]
    /\ pages_url = [r \in Reqs |-> None]
    /\ obs = [r \in Reqs |-> NoObs]

Init == Start(Faults, Tasks)

\* ---------------------------------------------------- repository host

BlobSha(content) == [kind |-> "sha", of |-> content]
Commit(r, n) == [kind |-> "commit", by |-> r, n |-> n]
RepoData(name) ==
    [html_url |-> [kind |-> "repo_html", owner |-> GH_USERNAME, repo |-> name],
     url |-> [kind |-> "repo_api", owner |-> GH_USERNAME, repo |-> name]]
InitialReadme == [kind |-> "auto_init"]

\* GET /repos/{owner}/{repo}
HostGetRepo(name) == (IF name \in repos THEN {"200"} ELSE {"404"}) \cup faults
\* POST /user/repos
HostPostRepo(name) == (IF name \in repos THEN {"422"} ELSE {"201"}) \cup faults
\* GET /repos/{owner}/{repo}/contents/{path}
HostGetContents(name, path) ==
    (IF files[name][path] # None THEN {"200"} ELSE {"404"}) \cup faults
\* PUT /repos/{owner}/{repo}/contents/{path}: a create needs no sha, an update
\* needs the sha of the blob now at the path.
HostPutContents(name, path, sent) ==
    (IF files[name][path] = None
     THEN (IF sent = None THEN {"201"} ELSE {"409"})
     ELSE IF sent = None THEN {"422"}
     ELSE IF sent = BlobSha(files[name][path]) THEN {"200"}
     ELSE {"409"}) \cup faults
\* A write that replaces the tree of the repository by the one file
HostWrite_replacing(tree, path, content) ==
    [p \in DOMAIN tree |-> IF p = path THEN content ELSE None]
\* The tree of the repository after an accepted PUT of content at path.
HostWrite(tree, path, content) == [tree EXCEPT ![path] = content]
\* GET /repos/{owner}/{repo}/git/ref/heads/main
HostGetRef(name) == (IF head[name] # None THEN {"200"} ELSE {"404"}) \cup faults
\* POST /repos/{owner}/{repo}/pages
HostPostPages(name) == (IF name \in pages THEN {"409"} ELSE {"201"}) \cup faults
\* PUT /repos/{owner}/{repo}/pages
HostPutPages(name) == (IF name \in pages THEN {"204"} ELSE {"404"}) \cup faults
\* GET /repos/{owner}/{repo}/pages
HostGetPages(name) == (IF name \in pages THEN {"200"} ELSE {"404"}) \cup faults

PagesHtmlUrl(name) == [kind |-> "pages_html", owner |-> GH_USERNAME, repo |-> name]
PagesApiUrl(name) == [kind |-> "pages_api", owner |-> GH_USERNAME, repo |-> name]
ConventionalUrl(owner, name) == [kind |-> "github_io", owner |-> owner, repo |-> name]
\* The body of a pages configuration: the host may omit either url.
PagesBodies(name) ==
    [html_url : {PagesHtmlUrl(name), None}, url : {PagesApiUrl(name), None}]

\* ---------------------------------------------------- github_pages.py
Is2xx(status) == status \in {"200", "201", "204"}
\* A raise_for_status that lets every answer pass
raise_for_status_never(status) == FALSE
\* Response.raise_for_status()
raise_for_status(status) == ~Is2xx(status)

\* A create request after every lookup that did not answer 200
repo_missing_unless_ok(status) == status # "200"
\* A write whose rejection is not raised
put_never_raises(status) == FALSE
\* ensure_repo_exists: the lookup answer that leads to the create request.
repo_missing(status) == status = "404"
\* ensure_repo_exists: the pair returned from the answer's body.
ensure_return(data) == <<data.html_url, data.url>>

\* _get_sha_if_exists: the sha of the answer when the status is 200, else None.
_get_sha_if_exists(status, blob) == IF status = "200" THEN BlobSha(blob) ELSE None

\* commit_files: the sha the write carries (`if sha: payload["sha"] = sha`).
put_sha(s) == IF Truthy(s) THEN s ELSE None
\* A write that raises for the 5xx answers only
put_raises_on_5xx(status) == status = "500"
\* commit_files: r.raise_for_status() after the write.
put_raises(status) == raise_for_status(status)

\* A loop that leaves out its last entry
loop_done_before_last(i, n) == i + 1 >= n
\* A loop that ends after its first write
loop_done_first(i, n) == TRUE
\* commit_files: the `for path, content in files.items()` loop has written
\* its last entry when entry i of n is written.
loop_done(i, n) == i = n

\* enable_pages_root: the body of the create and of the update request.
pages_payload == [source |-> [branch |-> "main", path |-> "/"]]
\* An update sent only when the create answered 409
pages_needs_update_on_conflict(status) == status = "409"
\* enable_pages_root: the create answer that leads to the update request.
pages_needs_update(status) == status \notin {"201", "204"}
\* enable_pages_root: the returned url.
pages_return(data, owner, name) ==
    IF Truthy(data.html_url) THEN data.html_url
    ELSE IF Truthy(data.url) THEN data.url
    ELSE ConventionalUrl(owner, name)

\* ------------------------------------------------------------ actions
Name(r) == _repo_name(payload[r].task)

Unauthorized == [status |-> "401", body |-> None, raised_in |-> "_auth"]
\* The answer to an unhandled exception, and the step that raised it.
ServerError(where) == [status |-> "500", body |-> None, raised_in |-> where]
\* The JSONResponse of submit.
SuccessBody(p, repo_url, pages_u, commit) ==
    [status |-> "200", raised_in |-> "-",
     body |-> [email |-> p.email, task |-> p.task, round |-> p.round,
               nonce |-> p.nonce, repo_url |-> repo_url,
               commit_sha |-> commit, pages_url |-> pages_u]]

\* An exception leaves _deploy_once and submit: the framework answers 500.
Fail(r) ==
    /\ pc' = [pc EXCEPT ![r] = "done"]
    /\ resp' = [resp EXCEPT ![r] = ServerError(pc[r])]

\* POST /submit: _auth, then the deployment sequence is started.
SubmitOf(r, P) ==
    /\ pc[r] = "idle"
    /\ \E p \in P :
        /\ payload' = [payload EXCEPT ![r] = p]
        /\ IF _auth(p)
           THEN /\ pc' = [pc EXCEPT ![r] = "ensure_get"]
                /\ resp' = resp
           ELSE /\ pc' = [pc EXCEPT ![r] = "done"]
                /\ resp' = [resp EXCEPT ![r] = Unauthorized]
    /\ UNCHANGED <<hostvars, client, faults, locals, obs>>

submit(r) == SubmitOf(r, Payloads)
\* POST /revise: `return await submit(payload)`.
revise(r) == submit(r)

\* ensure_repo_exists: client.get(.../repos/{owner}/{repo})
EnsureLookup(r) ==
    /\ pc[r] = "ensure_get"
    /\ \E st \in HostGetRepo(Name(r)) :
        /\ IF st = "transport"
           THEN /\ Fail(r)
                /\ UNCHANGED <<repo_html_url, repo_api>>
           ELSE IF repo_missing(st)
           THEN /\ pc' = [pc EXCEPT ![r] = "ensure_post"]
                /\ UNCHANGED <<resp, repo_html_url, repo_api>>
           ELSE IF raise_for_status(st)
           THEN /\ Fail(r)
                /\ UNCHANGED <<repo_html_url, repo_api>>
           ELSE /\ pc' = [pc EXCEPT ![r] = "decode"]
                /\ repo_html_url' =
                       [repo_html_url EXCEPT ![r] = ensure_return(RepoData(Name(r)))[1]]
                /\ repo_api' =
                       [repo_api EXCEPT ![r] = ensure_return(RepoData(Name(r)))[2]]
                /\ resp' = resp
        /\ obs' = [obs EXCEPT ![r].host = @ + 1, ![r].lookup = st,
                              ![r].errored = @ \/ (st \in Faults)]
    /\ UNCHANGED <<hostvars, client, faults, payload, attachment_files, html,
                   app_files_text, files_to_commit, idx, sha, commit_sha, pages_url>>

\* ensure_repo_exists: client.post(.../user/repos) with auto_init
EnsureCreate(r) ==
    /\ pc[r] = "ensure_post"
    /\ \E st \in HostPostRepo(Name(r)) :
        /\ IF st = "transport" \/ raise_for_status(st)
           THEN /\ Fail(r)
                /\ UNCHANGED <<repos, files, head, repo_html_url, repo_api>>
           ELSE /\ repos' = repos \cup {Name(r)}
                /\ files' = [files EXCEPT ![Name(r)]["README.md"] = InitialReadme]
                /\ head' = [head EXCEPT ![Name(r)] = Commit(r, 0)]
                /\ pc' = [pc EXCEPT ![r] = "decode"]
                /\ repo_html_url' =
                       [repo_html_url EXCEPT ![r] = ensure_return(RepoData(Name(r)))[1]]
                /\ repo_api' =
                       [repo_api EXCEPT ![r] = ensure_return(RepoData(Name(r)))[2]]
                /\ resp' = resp
        /\ obs' = [obs EXCEPT ![r].host = @ + 1, ![r].create = st,
                              ![r].errored = @ \/ ~Is2xx(st)]
    /\ UNCHANGED <<pages, client, faults, payload, attachment_files, html,
                   app_files_text, files_to_commit, idx, sha, commit_sha, pages_url>>

\* _deploy_once step 2: decode_and_collect_attachments(payload.attachments)
Decode(r) ==
    /\ pc[r] = "decode"
    /\ IF decode_raises(payload[r].attachments)
       THEN /\ Fail(r)
            /\ UNCHANGED attachment_files
       ELSE /\ pc' = [pc EXCEPT ![r] = "generate"]
            /\ attachment_files' = [attachment_files EXCEPT ![r] =
                   decode_and_collect_attachments(payload[r].attachments)]
            /\ resp' = resp
    /\ UNCHANGED <<hostvars, client, faults, payload, repo_html_url, repo_api, html, app_files_text,
                   files_to_commit, idx, sha, commit_sha, pages_url, obs>>

\* The end of generate_app_files and step 4 of _deploy_once (the merge); the
\* commit loop starts at the first entry.
Generated(r, use_fallback, h, j) ==
    /\ app_files_text' = [app_files_text EXCEPT ![r] = generate_return(use_fallback, h, j)]
    /\ files_to_commit' = [files_to_commit EXCEPT ![r] =
           files_to_commit_of(generate_return(use_fallback, h, j), attachment_files[r])]
    /\ idx' = [idx EXCEPT ![r] = 1]
    /\ pc' = [pc EXCEPT ![r] = "sha"]

\* generate_app_files without a backend (`else: use_fallback = True`)
GenerateNoBackend(r) ==
    /\ pc[r] = "generate"
    /\ ~client
    /\ Generated(r, TRUE, None, None)
    /\ UNCHANGED <<hostvars, client, faults, payload, resp, repo_html_url, repo_api, attachment_files,
                   html, sha, commit_sha, pages_url, obs>>

\* generate_app_files: the markup call
GenHtml(r) ==
    /\ pc[r] = "generate"
    /\ client
    /\ \E raised \in BOOLEAN :
        /\ IF HtmlFallback(raised)
           THEN /\ Generated(r, TRUE, None, None)
                /\ UNCHANGED html
           ELSE /\ html' = [html EXCEPT ![r] =
                       IF raised THEN None ELSE ModelAnswer("index.html", r)]
                /\ pc' = [pc EXCEPT ![r] = "gen_js"]
                /\ UNCHANGED <<app_files_text, files_to_commit, idx>>
        /\ obs' = [obs EXCEPT ![r].gen = @ + 1, ![r].genfail = @ \/ raised]
    /\ UNCHANGED <<hostvars, client, faults, payload, resp, repo_html_url, repo_api, attachment_files,
                   sha, commit_sha, pages_url>>

\* generate_app_files: the script call
GenJs(r) ==
    /\ pc[r] = "gen_js"
    /\ \E raised \in BOOLEAN :
        /\ Generated(r, JsFallback(raised), html[r],
                     IF raised THEN None ELSE ModelAnswer("script.js", r))
        /\ obs' = [obs EXCEPT ![r].gen = @ + 1, ![r].genfail = @ \/ raised]
    /\ UNCHANGED <<hostvars, client, faults, payload, resp, repo_html_url, repo_api, attachment_files,
                   html, sha, commit_sha, pages_url>>

Cur(r) == files_to_commit[r][idx[r]]

\* commit_files: sha = _get_sha_if_exists(owner, repo, path, token)
ShaLookup(r) ==
    /\ pc[r] = "sha"
    /\ \E st \in HostGetContents(Name(r), Cur(r).path) :
        /\ IF st = "transport"
           THEN /\ Fail(r)
                /\ UNCHANGED sha
           ELSE /\ sha' = [sha EXCEPT ![r] =
                       _get_sha_if_exists(st, files[Name(r)][Cur(r).path])]
                /\ pc' = [pc EXCEPT ![r] = "put"]
                /\ resp' = resp
        /\ obs' = [obs EXCEPT ![r].host = @ + 1,
                              ![r].errored = @ \/ (st \in Faults)]
    /\ UNCHANGED <<hostvars, client, faults, payload, repo_html_url, repo_api, attachment_files, html,
                   app_files_text, files_to_commit, idx, commit_sha, pages_url>>

\* commit_files: client.put(.../contents/{path}) and r.raise_for_status()
PutFile(r) ==
    /\ pc[r] = "put"
    /\ \E st \in HostPutContents(Name(r), Cur(r).path, put_sha(sha[r])) :
        /\ IF Is2xx(st)
           THEN /\ files' = [files EXCEPT ![Name(r)] =
                                HostWrite(@, Cur(r).path, Cur(r).content)]
                /\ head' = [head EXCEPT ![Name(r)] = Commit(r, idx[r])]
           ELSE UNCHANGED <<files, head>>
        /\ IF st = "transport" \/ put_raises(st)
           THEN /\ Fail(r)
                /\ UNCHANGED idx
           ELSE /\ idx' = [idx EXCEPT ![r] = @ + 1]
                /\ pc' = [pc EXCEPT ![r] =
                       IF loop_done(idx[r], Len(files_to_commit[r]))
                       THEN "ref" ELSE "sha"]
                /\ resp' = resp
        /\ obs' = [obs EXCEPT ![r].host = @ + 1,
                              ![r].put = [status |-> st,
                                          had |-> IF files[Name(r)][Cur(r).path] = None
                                                  THEN None
                                                  ELSE BlobSha(files[Name(r)][Cur(r).path]),
                                          sent |-> put_sha(sha[r])],
                              ![r].errored = @ \/ ~Is2xx(st),
                              ![r].rejected = @ \/ ~Is2xx(st)]
    /\ UNCHANGED <<repos, pages, client, faults, payload, repo_html_url, repo_api, attachment_files,
                   html, app_files_text, files_to_commit, sha, commit_sha, pages_url>>

\* commit_files: client.get(.../git/ref/heads/main) and the returned sha
ReadRef(r) ==
    /\ pc[r] = "ref"
    /\ \E st \in HostGetRef(Name(r)) :
        /\ IF st = "transport" \/ raise_for_status(st)
           THEN /\ Fail(r)
                /\ UNCHANGED commit_sha
           ELSE /\ commit_sha' = [commit_sha EXCEPT ![r] = head[Name(r)]]
                /\ pc' = [pc EXCEPT ![r] = "pages_post"]
                /\ resp' = resp
        /\ obs' = [obs EXCEPT ![r].host = @ + 1, ![r].errored = @ \/ ~Is2xx(st)]
    /\ UNCHANGED <<hostvars, client, faults, payload, repo_html_url, repo_api, attachment_files, html,
                   app_files_text, files_to_commit, idx, sha, pages_url>>

\* enable_pages_root: client.post(.../pages)
PagesCreate(r) ==
    /\ pc[r] = "pages_post"
    /\ \E st \in HostPostPages(Name(r)) :
        /\ pages' = IF st = "201" THEN pages \cup {Name(r)} ELSE pages
        /\ IF st = "transport"
           THEN Fail(r)
           ELSE /\ pc' = [pc EXCEPT ![r] =
                       IF pages_needs_update(st) THEN "pages_put" ELSE "pages_get"]
                /\ resp' = resp
        /\ obs' = [obs EXCEPT ![r].host = @ + 1,
                              ![r].pages_sent = @ \cup {pages_payload},
                              ![r].errored = @ \/ (st = "transport")]
    /\ UNCHANGED <<repos, files, head, client, faults, payload, locals>>

\* enable_pages_root: client.put(.../pages); the answer is not looked at
PagesUpdate(r) ==
    /\ pc[r] = "pages_put"
    /\ \E st \in HostPutPages(Name(r)) :
        /\ IF st = "transport"
           THEN Fail(r)
           ELSE /\ pc' = [pc EXCEPT ![r] = "pages_get"]
                /\ resp' = resp
        /\ obs' = [obs EXCEPT ![r].host = @ + 1,
                              ![r].pages_sent = @ \cup {pages_payload},
                              ![r].errored = @ \/ ~Is2xx(st)]
    /\ UNCHANGED <<hostvars, client, faults, payload, locals>>

\* enable_pages_root: client.get(.../pages), g.raise_for_status(), the url
PagesRead(r) ==
    /\ pc[r] = "pages_get"
    /\ \E st \in HostGetPages(Name(r)) :
        /\ IF st = "transport" \/ raise_for_status(st)
           THEN /\ Fail(r)
                /\ UNCHANGED pages_url
           ELSE /\ \E data \in PagesBodies(Name(r)) :
                      pages_url' = [pages_url EXCEPT ![r] =
                          pages_return(data, GH_USERNAME, Name(r))]
                /\ pc' = [pc EXCEPT ![r] = "notify"]
                /\ resp' = resp
        /\ obs' = [obs EXCEPT ![r].host = @ + 1, ![r].errored = @ \/ ~Is2xx(st)]
    /\ UNCHANGED <<hostvars, client, faults, payload, repo_html_url, repo_api, attachment_files, html,
                   app_files_text, files_to_commit, idx, sha, commit_sha>>

\* submit: `_ = await _notify(payload.evaluation_url, notify_body)`
Notify(r) ==
    /\ pc[r] = "notify"
    /\ \E outcome \in NotifyOutcomes :
        /\ IF _notify(outcome) = Raised
           THEN Fail(r)
           ELSE /\ pc' = [pc EXCEPT ![r] = "respond"]
                /\ resp' = resp
        /\ obs' = [obs EXCEPT ![r].notify = @ + 1, ![r].outcome = outcome]
    /\ UNCHANGED <<hostvars, client, faults, payload, locals>>

\* submit: return JSONResponse({...})
Respond(r) ==
    /\ pc[r] = "respond"
    /\ pc' = [pc EXCEPT ![r] = "done"]
    /\ resp' = [resp EXCEPT ![r] =
           SuccessBody(payload[r], repo_html_url[r], pages_url[r], commit_sha[r])]
    /\ UNCHANGED <<hostvars, client, faults, payload, locals, obs>>

\* The response has been sent: the handler's frame and the request are gone,
\* and the worker takes the next request.
Finish(r) ==
    /\ pc[r] = "done"
    /\ pc' = [pc EXCEPT ![r] = "idle"]
    /\ payload' = [payload EXCEPT ![r] = None]
    /\ resp' = [resp EXCEPT ![r] = None]
    /\ repo_html_url' = [repo_html_url EXCEPT ![r] = None]
    /\ repo_api' = [repo_api EXCEPT ![r] = None]
    /\ attachment_files' = [attachment_files EXCEPT ![r] = <<>>]
    /\ html' = [html EXCEPT ![r] = None]
    /\ app_files_text' = [app_files_text EXCEPT ![r] = <<>>]
    /\ files_to_commit' = [files_to_commit EXCEPT ![r] = <<>>]
    /\ idx' = [idx EXCEPT ![r] = 0]
    /\ sha' = [sha EXCEPT ![r] = None]
    /\ commit_sha' = [commit_sha EXCEPT ![r] = None]
    /\ pages_url' = [pages_url EXCEPT ![r] = None]
    /\ obs' = [obs EXCEPT ![r] = NoObs]
    /\ UNCHANGED <<hostvars, client, faults>>

\* The steps of one request, from the first host call to the response.
Deploy(r) ==
    \/ EnsureLookup(r) \/ EnsureCreate(r) \/ Decode(r)
    \/ GenerateNoBackend(r) \/ GenHtml(r) \/ GenJs(r)
    \/ ShaLookup(r) \/ PutFile(r) \/ ReadRef(r)
    \/ PagesCreate(r) \/ PagesUpdate(r) \/ PagesRead(r)
    \/ Notify(r) \/ Respond(r)

Step(r) == Deploy(r) \/ Finish(r)

\* The requests of a client that sends one request at a time, each after the
\* response to the one before.
Quiet(r) == \A q \in Reqs \ {r} : pc[q] = "idle"
SubmitSeq(r) == Quiet(r) /\ submit(r)
ReviseSeq(r) == Quiet(r) /\ revise(r)
NextSeq == \E r \in Reqs : SubmitSeq(r) \/ ReviseSeq(r) \/ Step(r)

SpecSeq == Init /\ [][NextSeq]_vars

\* ------------------------------------------------ the merge, examined
\* Requests of one client on a healthy network whose attachment lists repeat
\* names, collide with generated paths, or have an empty name.
MergeAttachments ==
    { [name |-> n, url |-> DataUrl(b)] :
        n \in {"data.csv", "index.html"},
        b \in {<<"A", "A", "A", "A">>, <<"A", "A", "=", "=">>} }
    \cup { [name |-> "", url |-> DataUrl(<<"A", "A", "A", "A">>)] }
MergePayloads ==
    { [email |-> STUDENT_EMAIL, secret |-> STUDENT_SECRET, task |-> t, round |-> 1,
       nonce |-> NonceOf(1), brief |-> Brief, checks |-> Checks,
       evaluation_url |-> EvalUrl, attachments |-> a] :
      t \in Tasks, a \in SeqsUpTo(MergeAttachments, MaxMergeAtts) }
SubmitMerge == SubmitOf(1, MergePayloads)
InitMerge == Start({}, Tasks)
NextMerge == SubmitMerge \/ Step(1)
SpecMerge == InitMerge /\ [][NextMerge]_vars

\* -------------------------------------------- overlapping submissions
\* Two submissions for the same task, each in its own worker thread
\* (run_in_threadpool), on a healthy network: every interleaving of their
\* calls to the host.
OverlapPayloads == {p \in MergePayloads : p.attachments = <<>>}
SubmitOverlap(r) == SubmitOf(r, OverlapPayloads)
InitOverlap == Start({}, Tasks)
NextOverlap == \E r \in {1, 2} : SubmitOverlap(r) \/ Deploy(r)
SpecOverlap == InitOverlap /\ [][NextOverlap]_vars

\* ----------------------------------------------- the naming, examined
\* Two requests on a healthy network, one after the other, whose tasks are
\* the strings of up to MaxTaskLen characters over a letter, the two replaced
\* characters and the replacement; each runs up to the end of its writes.
TaskChars == {"a", "/", " ", "-"}
WideTasks == SeqsUpTo(TaskChars, MaxTaskLen)
NamePayloads ==
    { [email |-> STUDENT_EMAIL, secret |-> STUDENT_SECRET, task |-> t, round |-> 1,
       nonce |-> NonceOf(1), brief |-> Brief, checks |-> Checks,
       evaluation_url |-> EvalUrl, attachments |-> <<>>] : t \in WideTasks }
SubmitName(r) ==
    /\ \A q \in {1, 2} \ {r} : pc[q] \in {"idle", "ref"}
    /\ SubmitOf(r, NamePayloads)
InitName == Start({}, WideTasks)
NextName ==
    \E r \in {1, 2} :
        \/ SubmitName(r) \/ EnsureLookup(r) \/ EnsureCreate(r) \/ Decode(r)
        \/ GenerateNoBackend(r) \/ GenHtml(r) \/ GenJs(r)
        \/ ShaLookup(r) \/ PutFile(r)
SpecName == InitName /\ [][NextName]_vars

\* --------------------------------------------------------- properties
CredsMismatch(r) ==
    payload[r].email # STUDENT_EMAIL \/ payload[r].secret # STUDENT_SECRET

\* C1: a request whose email or secret differs from the configured values ends
\* with the 401 response and has made no call to the repository host, none to
\* the generation backend and none to the evaluation callback.
C1_UnauthorizedNoCalls ==
    \A r \in Reqs :
        (pc[r] # "idle" /\ CredsMismatch(r)) =>
            /\ pc[r] = "done"
            /\ resp[r].status = "401"
            /\ obs[r].host = 0
            /\ obs[r].gen = 0
            /\ obs[r].notify = 0

C1_Witness ==
    \E r \in Reqs :
        /\ pc[r] = "done"
        /\ payload[r].email = STUDENT_EMAIL
        /\ payload[r].secret # STUDENT_SECRET
        /\ resp[r].status = "401"

\* C2: a write to a path that an earlier deploy call has written carries the
\* sha of the blob now at the path and is not rejected as a create of an
\* existing file (422).
WrittenByDeploy(had) == had # None /\ had # BlobSha(InitialReadme)
C2_SecondWriteCarriesSha ==
    \A r \in Reqs :
        (obs[r].put.status # "-" /\ WrittenByDeploy(obs[r].put.had)) =>
            /\ obs[r].put.sent = obs[r].put.had
            /\ obs[r].put.status # "422"

\* C3: with one deploy call after the other, ensure_repo_exists sends the
\* create request only after a 404 lookup, the create is never rejected
\* because the repository exists, and after a successful lookup no create is
\* sent and the urls of the existing repository are returned.
C3_EnsureIdempotent ==
    \A r \in Reqs :
        /\ obs[r].create # "-" => obs[r].lookup = "404"
        /\ obs[r].create # "422"
        /\ obs[r].lookup = "200" =>
               /\ obs[r].create = "-"
               /\ repo_html_url[r] = [kind |-> "repo_html", owner |-> GH_USERNAME,
                                      repo |-> Name(r)]
               /\ repo_api[r] = [kind |-> "repo_api", owner |-> GH_USERNAME,
                                 repo |-> Name(r)]
        /\ obs[r].lookup \in {"500", "transport"} => pc[r] = "done"

C3_Witness ==
    \E r \in Reqs :
        /\ obs[r].lookup = "200"
        /\ pc[r] = "decode"
        /\ head[Name(r)] # None /\ head[Name(r)].n > 0

\* C4: an attachment whose payload matches the data-URI pattern and is not
\* valid base64 does not make the request fail in the decoder.
HasUndecodable(atts) ==
    \E i \in 1..Len(atts) :
        /\ atts[i].name # ""
        /\ DATA_URI_RE(atts[i].url)
        /\ b64decode(atts[i].url.b64) = Invalid
C4_UndecodableDropped ==
    \A r \in Reqs :
        (pc[r] # "idle" /\ HasUndecodable(payload[r].attachments)) =>
            (resp[r] = None \/ resp[r].raised_in # "decode")

\* C5: once EnablePages has returned, the response is the success body that
\* echoes email, task, round and nonce and carries the urls and the commit of
\* this deployment, whatever the outcome of the callback.
C5_SuccessWhateverNotifier ==
    \A r \in Reqs :
        (pc[r] = "done" /\ pages_url[r] # None) =>
            /\ resp[r].status = "200"
            /\ resp[r].body =
                   [email |-> payload[r].email, task |-> payload[r].task,
                    round |-> payload[r].round, nonce |-> payload[r].nonce,
                    repo_url |-> repo_html_url[r], commit_sha |-> commit_sha[r],
                    pages_url |-> pages_url[r]]
            /\ repo_html_url[r] # None /\ commit_sha[r] # None

C5_Witness ==
    \E r \in Reqs :
        /\ pc[r] = "done"
        /\ resp[r].status = "200"
        /\ obs[r].outcome \in {"non_2xx", "timeout", "network"}

\* C6: the callback is posted at most once; it has been posted exactly once
\* when EnablePages has returned and the handler is about to respond or has
\* responded, and not at all before that, nor when the credentials mismatch,
\* the repository lookup failed or a file write was rejected.
C6_ExactlyOneCallback ==
    \A r \in Reqs :
        /\ obs[r].notify <= 1
        /\ pages_url[r] = None => obs[r].notify = 0
        /\ pc[r] = "notify" => obs[r].notify = 0
        /\ (pc[r] \in {"respond", "done"} /\ pages_url[r] # None) => obs[r].notify = 1
        /\ pc[r] = "respond" => resp[r] = None
        /\ (pc[r] # "idle" /\ CredsMismatch(r)) => obs[r].notify = 0
        /\ (obs[r].lookup \in {"500", "transport"} \/ obs[r].rejected) =>
               obs[r].notify = 0

C6_Witness ==
    \E r \in Reqs :
        /\ pc[r] = "respond"
        /\ obs[r].notify = 1
        /\ resp[r] = None

Generated5(r) == Len(app_files_text[r]) = 5

\* C7: in the mapping generate_app_files returns, index.html and script.js are
\* both backend answers or both the fallback templates; they are the fallback
\* templates when there is no backend or a backend call failed.
C7_NoMixedOrigin ==
    \A r \in Reqs :
        Generated5(r) =>
            LET h == app_files_text[r][1].content
                j == app_files_text[r][3].content
            IN /\ \/ h.kind = "llm" /\ j.kind = "llm"
                  \/ h.kind = "fallback" /\ j.kind = "fallback"
               /\ (~client \/ obs[r].genfail) =>
                      (h.kind = "fallback" /\ j.kind = "fallback")

C7_Witness ==
    \E r \in Reqs :
        /\ Generated5(r)
        /\ obs[r].gen = 2
        /\ obs[r].genfail
        /\ app_files_text[r][1].content.kind = "fallback"

\* C8: past the generation step the mapping has exactly the paths index.html,
\* style.css, script.js, README.md and LICENSE, the
\* stylesheet, readme and license are template content, and no request fails
\* in the generation step.
C8_FiveFilesNoFailure ==
    \A r \in Reqs :
        /\ pc[r] \in {"sha", "put", "ref", "pages_post", "pages_put", "pages_get",
                      "notify", "respond"} =>
               /\ KeyList(app_files_text[r]) =
                      <<"index.html", "style.css", "script.js", "README.md", "LICENSE">>
               /\ \A i \in {2, 4, 5} : app_files_text[r][i].content.kind = "template"
               /\ \A i \in {1, 3} : app_files_text[r][i].content.kind \in {"llm", "fallback"}
        /\ resp[r] # None => resp[r].raised_in \notin {"generate", "gen_js"}

C8_Witness ==
    \E r \in Reqs :
        /\ obs[r].genfail
        /\ pc[r] = "done"
        /\ resp[r].status = "200"

\* C9: every transport error and every non-2xx answer to a repository-host
\* call, apart from the 404 of the two lookups and a rejected pages create,
\* ends the request at once with a failure response.
C9_HostErrorsRaise ==
    \A r \in Reqs :
        obs[r].errored => (pc[r] = "done" /\ resp[r].status = "500")

EnsureCalls(r) == IF obs[r].create = "-" THEN 1 ELSE 2

\* C10: the files are written one at a time in the order of the file set; the
\* files before the current one are on the host with the content written; a
\* rejected write ends the request with a failure response, with no later
\* lookup or write, no read of the head reference and no pages call.
C10_AbortOnRejectedWrite ==
    \A r \in Reqs :
        /\ (pc[r] \in {"sha", "put", "ref"} \/ obs[r].rejected) =>
               \A i \in 1..(idx[r] - 1) :
                   files[Name(r)][files_to_commit[r][i].path] =
                       files_to_commit[r][i].content
        /\ pc[r] = "sha" => obs[r].host = EnsureCalls(r) + 2 * (idx[r] - 1)
        /\ pc[r] = "put" => obs[r].host = EnsureCalls(r) + 2 * idx[r] - 1
        /\ obs[r].rejected =>
               /\ pc[r] = "done"
               /\ resp[r].status = "500"
               /\ resp[r].raised_in = "put"
               /\ obs[r].host = EnsureCalls(r) + 2 * idx[r]
               /\ commit_sha[r] = None
               /\ pages_url[r] = None

C10_Witness ==
    \E r \in Reqs :
        /\ obs[r].rejected
        /\ idx[r] >= 2
        /\ pc[r] = "done"
        /\ files[Name(r)][files_to_commit[r][1].path] = files_to_commit[r][1].content

EnsureSucceeded(r) == obs[r].lookup = "200" \/ obs[r].create = "201"
\* The calls to the host up to the end of commit_files.
CallsThroughCommit(r) == EnsureCalls(r) + 2 * Len(files_to_commit[r]) + 1

\* C11: the steps of one request run in the order ensure_repo_exists, decode,
\* generate, merge, commit_files, enable_pages_root: nothing runs before
\* ensure_repo_exists has returned, no generation call before the decoder, no
\* lookup or write before the merge, every write and the read of the head
\* reference before the first pages call.
C11_StrictOrder ==
    \A r \in Reqs :
        /\ (pc[r] \in {"decode", "generate", "gen_js", "sha", "put", "ref",
                       "pages_post", "pages_put", "pages_get", "notify", "respond"}
            \/ obs[r].gen > 0 \/ obs[r].put.status # "-") => EnsureSucceeded(r)
        /\ pc[r] \in {"ensure_get", "ensure_post", "decode"} =>
               obs[r].gen = 0 /\ app_files_text[r] = <<>>
        /\ pc[r] \in {"ensure_get", "ensure_post", "decode", "generate", "gen_js"} =>
               /\ files_to_commit[r] = <<>>
               /\ obs[r].put.status = "-"
               /\ obs[r].host <= EnsureCalls(r)
        /\ pc[r] \in {"sha", "put", "ref"} =>
               /\ Generated5(r)
               /\ Len(files_to_commit[r]) >= 5
               /\ commit_sha[r] = None
               /\ obs[r].pages_sent = {}
        /\ pc[r] = "ref" =>
               /\ idx[r] = Len(files_to_commit[r]) + 1
               /\ obs[r].host = CallsThroughCommit(r) - 1
        /\ commit_sha[r] # None => idx[r] = Len(files_to_commit[r]) + 1
        /\ (pc[r] \in {"pages_post", "pages_put", "pages_get"}
            \/ obs[r].pages_sent # {} \/ pages_url[r] # None) =>
               /\ commit_sha[r] # None
               /\ obs[r].host >= CallsThroughCommit(r)
        /\ pc[r] = "pages_post" =>
               obs[r].host = CallsThroughCommit(r) /\ obs[r].pages_sent = {}

C11_Witness ==
    \E r \in Reqs :
        /\ pc[r] = "pages_post"
        /\ obs[r].create = "201"
        /\ obs[r].gen = 2
        /\ Len(files_to_commit[r]) = 6

\* C14: enable_pages_root sends the create request; it goes straight to the
\* read when the host accepted the create and sends the update, with the same
\* body, when it did not; the read follows the create or the update, is one
\* call, and the url is assigned by that read only.
C14_PagesProtocol ==
    [][\A r \in Reqs :
          /\ (pc[r] = "pages_post" /\ pc'[r] # "pages_post") =>
                 /\ obs'[r].host = obs[r].host + 1
                 /\ IF Name(r) \in pages' \ pages
                    THEN pc'[r] = "pages_get"
                    ELSE pc'[r] \in {"pages_put", "done"}
          /\ (pc'[r] = "pages_put" /\ pc[r] # "pages_put") => pc[r] = "pages_post"
          /\ (pc[r] = "pages_put" /\ pc'[r] # "pages_put") =>
                 /\ obs'[r].host = obs[r].host + 1
                 /\ pc'[r] \in {"pages_get", "done"}
          /\ obs'[r].pages_sent \subseteq {[source |-> [branch |-> "main", path |-> "/"]]}
          /\ (pc'[r] = "pages_get" /\ pc[r] # "pages_get") =>
                 pc[r] \in {"pages_post", "pages_put"}
          /\ (pc[r] = "pages_get" /\ pc'[r] # "pages_get") =>
                 /\ obs'[r].host = obs[r].host + 1
                 /\ pc'[r] \in {"notify", "done"}
                 /\ pc'[r] = "notify" <=> pages_url'[r] # None
          /\ pc[r] \in {"notify", "respond"} => obs'[r].host = obs[r].host
          /\ pages_url'[r] # pages_url[r] =>
                 \/ pc[r] = "pages_get" /\ pc'[r] = "notify"
                 \/ pc[r] = "done" /\ pc'[r] = "idle"
      ]_vars

\* The create was not accepted, the update and the read followed.
C14_Witness ==
    \E r \in Reqs :
        /\ pc[r] = "notify"
        /\ pages_url[r] # None
        /\ obs[r].host = CallsThroughCommit(r) + 3

\* C15: the url enable_pages_root returns is the html_url of the pages
\* configuration, or the conventional github.io url of the repository.
C15_HostingOrConventional ==
    \A r \in Reqs :
        pages_url[r] # None =>
            pages_url[r] \in {[kind |-> "pages_html", owner |-> GH_USERNAME,
                               repo |-> Name(r)],
                              [kind |-> "github_io", owner |-> GH_USERNAME,
                               repo |-> Name(r)]}

\* C18: a step changes a file of a repository only as the write of the
\* current entry of a request's file set, to that entry's content (or as the
\* README.md of a repository being created); every other path keeps its
\* content and no path goes back to absent.
C18_CommitFrame ==
    [][\A n \in RepoNames, p \in Paths :
          files'[n][p] # files[n][p] =>
              /\ files'[n][p] # None
              /\ \E r \in Reqs :
                    /\ pc[r] \in {"put", "ensure_post"}
                    /\ n = Name(r)
                    /\ IF pc[r] = "put"
                       THEN /\ p = files_to_commit[r][idx[r]].path
                            /\ files'[n][p] = files_to_commit[r][idx[r]].content
                       ELSE p = "README.md" /\ files[n][p] = None
      ]_vars

\* A later call without the attachment of an earlier one has succeeded and
\* the attachment is still there.
C18_Witness ==
    \E r \in Reqs :
        /\ pc[r] = "done"
        /\ resp[r].status = "200"
        /\ "data.csv" \notin Keys(files_to_commit[r])
        /\ files[Name(r)]["data.csv"] = Bytes(3)

\* The positions of atts that decode_and_collect_attachments stores.
StoredAt(atts) ==
    {i \in 1..Len(atts) :
        /\ atts[i].name # ""
        /\ DATA_URI_RE(atts[i].url)
        /\ b64decode(atts[i].url.b64) # Invalid}
Last(S) == CHOOSE k \in S : \A j \in S : j <= k

\* C16: the file set has one entry per path: the paths are those of the
\* generated files and of the stored attachments; the entry of a path that
\* stored attachments have carries the bytes of the last of them in the list,
\* every other entry the encoded generated text; each entry is written once
\* and these contents are what the repository holds after the last write.
C16_LastWriterWins ==
    \A r \in Reqs :
        files_to_commit[r] # <<>> =>
            LET ftc == files_to_commit[r]
                atts == payload[r].attachments
                gen == app_files_text[r]
            IN /\ \A i, j \in 1..Len(ftc) : ftc[i].path = ftc[j].path => i = j
               /\ {ftc[i].path : i \in 1..Len(ftc)} =
                      {gen[i].path : i \in 1..Len(gen)}
                          \cup {atts[i].name : i \in StoredAt(atts)}
               /\ \A i \in 1..Len(ftc) :
                      LET S == {k \in StoredAt(atts) : atts[k].name = ftc[i].path}
                      IN IF S # {}
                         THEN ftc[i].content = b64decode(atts[Last(S)].url.b64)
                         ELSE \E k \in 1..Len(gen) :
                                  /\ gen[k].path = ftc[i].path
                                  /\ ftc[i].content =
                                         [kind |-> "utf8", text |-> gen[k].content]
               /\ pc[r] = "ref" =>
                      /\ obs[r].host = EnsureCalls(r) + 2 * Len(ftc)
                      /\ \A i \in 1..Len(ftc) :
                             files[Name(r)][ftc[i].path] = ftc[i].content

\* Two attachments named index.html with different bytes: the second one's
\* bytes are in the repository.
C16_Witness ==
    \E r \in Reqs :
        /\ pc[r] = "ref"
        /\ Len(payload[r].attachments) = 2
        /\ payload[r].attachments[1].name = "index.html"
        /\ payload[r].attachments[2].name = "index.html"
        /\ b64decode(payload[r].attachments[1].url.b64) = Bytes(3)
        /\ files[Name(r)]["index.html"] = Bytes(1)
        /\ Len(files_to_commit[r]) = 5

\* The repository handler r works on, as the host names it in its answer.
RepoOf(r) == repo_html_url[r].repo
Wrote(r) == repo_html_url[r] # None /\ obs[r].put.status \in {"200", "201"}
\* Tasks that are equal once "/" and " " are read as "-".
SameSanitized(t, u) ==
    /\ Len(t) = Len(u)
    /\ \A i \in 1..Len(t) : t[i] = u[i] \/ {t[i], u[i]} \subseteq {"/", " ", "-"}

\* C19 as stated: two requests with different tasks never write to the same
\* repository.
C19_DistinctTasksDistinctRepos ==
    \A r, q \in Reqs :
        (Wrote(r) /\ Wrote(q) /\ payload[r].task # payload[q].task) =>
            RepoOf(r) # RepoOf(q)

\* C19: the repository a request works on is named by the prefix followed by
\* the task with every "/" and every " " replaced by "-": the name has no "/"
\* and no " ", it is on the host, and two requests work on the same repository
\* exactly when their tasks are equal after the replacement.
C19_SanitizedName ==
    \A r \in Reqs :
        repo_html_url[r] # None =>
            LET n == RepoOf(r)
                t == payload[r].task
                k == Len(GH_REPO_PREFIX)
            IN /\ Len(n) = k + Len(t)
               /\ \A i \in 1..k : n[i] = GH_REPO_PREFIX[i]
               /\ \A i \in 1..Len(t) :
                      n[k + i] = IF t[i] \in {"/", " "} THEN "-" ELSE t[i]
               /\ \A i \in 1..Len(n) : n[i] \notin {"/", " "}
               /\ n \in repos
               /\ repo_api[r].repo = n
               /\ \A q \in Reqs :
                      repo_html_url[q] # None =>
                          (RepoOf(q) = n <=> SameSanitized(payload[q].task, t))

\* Two requests with different tasks have written to one repository.
C19_Witness ==
    \E r, q \in Reqs :
        /\ Wrote(r) /\ Wrote(q)
        /\ payload[r].task # payload[q].task
        /\ RepoOf(r) = RepoOf(q)
        /\ pc[r] = "ref" /\ pc[q] = "ref"

\* C12: a submission whose write the host rejected for a missing or stale sha
\* has made no call after that write, has answered with the failure response,
\* has posted no callback and holds no commit and no pages url.
C12_ConflictIsFailure ==
    \A r \in Reqs :
        obs[r].put.status \in {"409", "422"} =>
            /\ obs[r].put.sent # obs[r].put.had
            /\ pc[r] = "done"
            /\ resp[r] = [status |-> "500", body |-> None, raised_in |-> "put"]
            /\ obs[r].host = EnsureCalls(r) + 2 * idx[r]
            /\ obs[r].notify = 0
            /\ obs[r].outcome = "-"
            /\ commit_sha[r] = None
            /\ pages_url[r] = None
            /\ obs[r].pages_sent = {}

\* The write carried the sha of a blob that the other submission replaced.
C12_Witness ==
    \E r, q \in Reqs :
        /\ r # q
        /\ obs[r].put.status = "409"
        /\ obs[r].put.sent # None
        /\ obs[r].put.had # obs[r].put.sent
        /\ pc[r] = "done"
        /\ pc[q] = "done" /\ resp[q].status = "200"

\* C13: no submission sends a create request for a repository that exists,
\* and none fails in the create request.
C13_CreatedOnceReusedAfter ==
    \A r \in Reqs :
        /\ obs[r].create \notin {"422"}
        /\ resp[r] # None => resp[r].raised_in # "ensure_post"

\* C17 as stated: the commit a request returns in its response is a commit of
\* its own writes.
C17_OwnCommit ==
    \A r \in Reqs :
        (pc[r] = "done" /\ resp[r].status = "200") =>
            /\ resp[r].body.commit_sha.by = r
            /\ resp[r].body.commit_sha.n >= 1

\* C17: the commit a request holds is the commit of a file write; when it is
\* the request's own it is that of its last write; when it is another
\* request's, that request works on the same repository and has made that
\* write; when no other request has written, it is the request's own last
\* write.
C17_HeadAtRead ==
    \A r \in Reqs :
        commit_sha[r] # None =>
            LET c == commit_sha[r]
                n == Len(files_to_commit[r])
            IN /\ c.n >= 1
               /\ c.by = r => c.n = n
               /\ c.by # r =>
                      /\ pc[c.by] # "idle"
                      /\ payload[c.by].task = payload[r].task
                      /\ idx[c.by] > c.n
               /\ (\A q \in Reqs \ {r} : idx[q] < 2) =>
                      c = [kind |-> "commit", by |-> r, n |-> n]
               /\ pc[r] = "done" => resp[r].body.commit_sha = c

\* A request has answered with, and posted to the callback, a commit that the
\* other submission made.
C17_Witness ==
    \E r \in Reqs :
        /\ pc[r] = "done"
        /\ resp[r].status = "200"
        /\ obs[r].notify = 1
        /\ resp[r].body.commit_sha.by # r

====
